---- MODULE Spec2Model ----
(***************************************************************************)
(* Model of the file-to-ticket synchronisation of JiraTicketService        *)
(* (jira_tickets.py): process_file, process_single_file, process_line,     *)
(* create_ticket and find_existing_ticket, together with the environment   *)
(* they run against (the tracker, an external process that locks or        *)
(* removes files, a machine that raises I/O errors), and of the part of    *)
(* the tray service (jira_ticket_service.py) that calls process_file:      *)
(* process_now, process_tickets and run_scheduler.                         *)
(*                                                                         *)
(* A line of text is a sequence of characters without its line terminator; *)
(* a file is a sequence of lines; the tracker is a sequence of tickets     *)
(* whose index is the ticket key.                                          *)
(***************************************************************************)
EXTENDS Integers, Sequences, FiniteSets, TLC

\* ------------------------------------------------------------------ bounds

\* Largest number of lines the main file holds in an initial state.
MaxLines == 2

\* Largest number of lines a conflict file holds in an initial state.
MaxConflictLines == 1

\* The tracker refuses to create a ticket once it holds this many.
MaxTickets == 2

\* How often the menu item "Process Now" is chosen in a run of the service.
MaxManual == 2

\* Most OSErrors the machine raises during one drain, lock contention aside.
MaxFaults == 1

\* Longest text handed to generate_content_hash on its own.
MaxTextLen == 4

\* ------------------------------------------------------------- vocabulary

\* The line texts the initial files are drawn from: a line with leading
\* whitespace, a line without, and a line of whitespace only.
LineTexts == { <<" ", "a">>, <<"b">>, <<" ">> }

Primary == "tickets.md"

ConflictPaths == { "tickets.sync-conflict-1.txt" }

Paths == {Primary} \cup ConflictPaths

None == 0

\* ----------------------------------------------------------- pure helpers

IsSpace(c) == c = " "

RECURSIVE LStrip(_)
LStrip(s) == IF s # << >> /\ IsSpace(Head(s)) THEN LStrip(Tail(s)) ELSE s

RECURSIVE RStrip(_)
RStrip(s) ==
    IF s # << >> /\ IsSpace(s[Len(s)]) THEN RStrip(SubSeq(s, 1, Len(s) - 1)) ELSE s

\* str.strip()
Strip(s) == RStrip(LStrip(s))

\* str.encode('utf-8') on the characters of the vocabulary
CodePoint(c) == CASE c = " " -> 32 [] c = "a" -> 97 [] c = "b" -> 98 [] OTHER -> 63

Encode(s) == [i \in 1..Len(s) |-> CodePoint(s[i])]

\* Stand-in for the SHA-256 compression: a deterministic fold of the bytes.
RECURSIVE Mix(_, _)
Mix(bytes, acc) ==
    IF bytes = << >> THEN acc
    ELSE Mix(Tail(bytes), (acc * 31 + Head(bytes) + 1) % 65536)

DigestHexLen == 64

HashPrefixLen == 12

\* hashlib.sha256(...).hexdigest(): 64 hexadecimal digits (as numbers 0..15)
HexDigest(bytes) ==
    LET d == Mix(bytes, 7) IN [i \in 1..DigestHexLen |-> ((d + i) * (i + 2)) % 16]

Sha256Prefix(stripped) == SubSeq(HexDigest(Encode(stripped)), 1, HashPrefixLen)

\* The characters of the vocabulary.
Chars == {" ", "a", "b"}

\* The texts handed to generate_content_hash when it is looked at on its own.
HashInputs == UNION { [1..k -> Chars] : k \in 0..MaxTextLen }

\* The texts the program hashes: the stripped texts.
StrippedTexts == { Strip(l) : l \in LineTexts \cup HashInputs }

hash_unstripped(text) == Sha256Prefix(text)

\* Sha256Prefix, evaluated once for every text of the vocabulary.
HashTable == [t \in StrippedTexts |-> Sha256Prefix(t)]

\* generate_content_hash(text):
\* hashlib.sha256(text.strip().encode('utf-8')).hexdigest()[:12]
generate_content_hash(text) == HashTable[Strip(text)]

\* ------------------------------------------------------------------ state

VARIABLES
    files,            \* the paths that exist on disk
    content,          \* path -> the lines of the file (<< >> when absent)
    extLock,          \* the paths an external process holds locked
    tickets,          \* the tracker: sequence of [hash, done]; the key is the index
    pc,               \* position of the process_file invocation
    jira,             \* connect_to_jira of this invocation: "none", "session", "failed"
    cur,              \* filename of the running process_single_file
    holding,          \* this process holds the lock on cur (source_file is open)
    tempExists,       \* the scratch file of mkstemp exists
    temp,             \* the lines of the scratch file
    idx,              \* index of the next line the for loop reads
    file_empty,       \* local of process_single_file
    successful_count, \* local of process_single_file
    total_successful, \* local of process_file
    sync_files,       \* conflict files discovered and not yet drained
    ticket_key,       \* what the last create_ticket returned (None: no key)
    \* history variables, read only by the properties
    failed,           \* lines, as read, whose create failed in the running pass
    keysReturned,     \* create_ticket calls of this drain that returned a key
    called,           \* the gateway was called during this drain
    rewrote,          \* this drain truncated the target file
    drainInput,       \* the lines of cur when this drain began
    passState,        \* "none", "running", "done", "empty", "aborted", "interrupted"
    contended,        \* this drain found the lock held by another process
    owed,             \* path -> lines the invocation found in it when it began
    \* input/output faults of the machine and what they leave behind
    faults,           \* how many more OSErrors the machine raises in this run
    stale,            \* a scratch file of a call that has returned is still on disk
    unlinkRaised,     \* history: os.unlink(temp_path) has raised
    converted,        \* history: indexes of the lines of cur that this call has
                      \* got a key for and that are still in the file
    extSeen,          \* history: the lines another drain of cur last read
    \* generate_content_hash on its own
    hashIn,           \* the text handed to generate_content_hash
    hashOut,          \* the fingerprint it returned (<< >>: not called yet)
    \* the tray service (jira_ticket_service.py)
    processing,       \* JiraTicketService.processing
    thread            \* thread -> its position in run_scheduler / process_tickets

faultVars == << faults, stale, unlinkRaised, converted, extSeen >>

hashVars == << hashIn, hashOut >>

svcVars == << processing, thread >>

shellVars == << hashVars, svcVars >>

coreVars == << files, content, extLock, tickets, pc, jira, cur, holding, tempExists,
               temp, idx, file_empty, successful_count, total_successful, sync_files,
               ticket_key, failed, keysReturned, called, rewrote, drainInput,
               passState, contended, owed >>

vars == << coreVars, faultVars, hashVars, svcVars >>

procVars == << pc, jira, cur, holding, tempExists, temp, idx, file_empty,
               successful_count, total_successful, sync_files, ticket_key >>

histVars == << failed, keysReturned, called, rewrote, drainInput, passState,
              contended, owed >>

\* Sequences over S of length at most n.
SeqsUpTo(S, n) == UNION { [1..k -> S] : k \in 0..n }

\* The thread of run_scheduler and the threads that process_now starts.
Scheduler == 0

ManualThreads == 1..MaxManual

Threads == {Scheduler} \cup ManualThreads

\* No thread of the service has started.
ServiceIdle ==
    /\ processing = FALSE
    /\ thread = [t \in Threads |-> "idle"]

\* Nothing has been fingerprinted and no thread of the service has started.
ShellIdle ==
    /\ hashIn = << >>
    /\ hashOut = << >>
    /\ ServiceIdle

\* No scratch file is left over and nothing has been read or converted.
NothingLeft ==
    /\ stale = FALSE
    /\ unlinkRaised = FALSE
    /\ converted = {}
    /\ extSeen = << >>

\* The files, the tracker and the locals before the program has run, with
\* the program at position pc0 and its session jira0.
CoreInit(pc0, jira0) ==
    /\ files \in SUBSET Paths
    /\ content \in [Paths -> SeqsUpTo(LineTexts, MaxLines)]
    /\ \A p \in ConflictPaths : Len(content[p]) <= MaxConflictLines
    /\ \A p \in Paths : p \notin files => content[p] = << >>
    /\ extLock = {}
    /\ tickets = << >>
    /\ pc = pc0
    /\ jira = jira0
    /\ cur = Primary
    /\ holding = FALSE
    /\ tempExists = FALSE
    /\ temp = << >>
    /\ idx = 1
    /\ file_empty = TRUE
    /\ successful_count = 0
    /\ total_successful = 0
    /\ sync_files = {}
    /\ ticket_key = None
    /\ failed = << >>
    /\ keysReturned = 0
    /\ called = FALSE
    /\ rewrote = FALSE
    /\ drainInput = << >>
    /\ passState = "none"
    /\ contended = FALSE
    /\ owed = [p \in Paths |-> {}]

\* CoreInit on a machine that raises no OSError while a file is read or written.
InitAt(pc0, jira0) ==
    /\ CoreInit(pc0, jira0)
    /\ faults = 0
    /\ NothingLeft
    /\ ShellIdle

\* Nothing runs: the scheduler has not called process_file yet.
Init == InitAt("idle", "none")

\* ---------------------------------------------------------------- gateway

\* find_existing_ticket: the keys of the tickets the JQL search matches
\* (description carries the hash, statusCategory != Done).  The caller takes
\* issues[0]; the tracker decides the order, so any match may be the first.
find_nothing(tk, content_hash) == {}

find_any_status(tk, content_hash) ==
    { k \in 1..Len(tk) : tk[k].hash = content_hash }

find_existing_ticket(tk, content_hash) ==
    { k \in 1..Len(tk) : tk[k].hash = content_hash /\ ~tk[k].done }

\* jira.create_issue(fields=issue_dict): the tracker stores a new open ticket
\* whose description carries the hash.
create_issue(tk, content_hash) == Append(tk, [hash |-> content_hash, done |-> FALSE])

\* create_ticket: every [tickets, key] the call can end with.  Any exception
\* of the search or of the creation is caught and gives key None.
create_ticket(tk, content_hash) ==
    LET existing == find_existing_ticket(tk, content_hash) IN
    { [tickets |-> tk, key |-> None] }
    \cup
    ( IF existing # {}
      THEN { [tickets |-> tk, key |-> k] : k \in existing }
      ELSE IF Len(tk) < MaxTickets
           THEN { [tickets |-> create_issue(tk, content_hash), key |-> Len(tk) + 1] }
           ELSE {} )

process_line_lossy(tk, raw) ==
    { [success |-> TRUE, line |-> Strip(raw), tickets |-> r.tickets, key |-> r.key,
       called |-> Strip(raw) # << >>] :
      r \in IF Strip(raw) = << >>
            THEN { [tickets |-> tk, key |-> None] }
            ELSE create_ticket(tk, generate_content_hash(Strip(raw))) }

\* process_line: every [success, line, tickets, key, called] the call can end
\* with; line is the stripped text it hands back.
process_line(tk, raw) ==
    LET line == Strip(raw) IN
    IF line = << >>
    THEN { [success |-> TRUE, line |-> line, tickets |-> tk, key |-> None,
            called |-> FALSE] }
    ELSE { [success |-> r.key # None, line |-> line, tickets |-> r.tickets,
            key |-> r.key, called |-> TRUE] :
           r \in create_ticket(tk, generate_content_hash(line)) }

\* get_sync_conflict_files: the existing files the glob pattern matches.
get_sync_conflict_files(existing) == existing \cap ConflictPaths

never_breaks(fe) == FALSE

\* `if file_empty: break`
FileEmptyBreak(fe) == fe

always_drains(session) == "mkstemp"

\* `if not jira: return` in process_file: where the invocation goes next.
AfterConnect(session) == IF session = "session" THEN "mkstemp" ELSE "idle"

gives_up == "cleanup"

\* The except clause an OSError raised by open() or msvcrt.locking() lands in:
\* `except IOError` sleeps and continues.
OnIOError == "sleep"

write_unless_present(lines, line) ==
    IF \E i \in 1..Len(lines) : lines[i] = line THEN lines ELSE Append(lines, line)

\* temp_file.write(processed_line + '\n'): the scratch file after the write.
temp_file_write(lines, line) == Append(lines, line)

never_unlinks(exists, raised) == exists

\* `if os.path.exists(temp_path): os.unlink(temp_path)`: whether the scratch
\* file is still on disk afterwards.
ScratchRemains(exists, raised) == exists /\ raised

NonBlank(lines) == { Strip(lines[i]) : i \in 1..Len(lines) } \ { << >> }

\* The history of a drain is forgotten once process_single_file has returned.
DrainHistoryReset ==
    /\ failed' = << >>
    /\ keysReturned' = 0
    /\ called' = FALSE
    /\ rewrote' = FALSE
    /\ drainInput' = << >>
    /\ passState' = "none"
    /\ contended' = FALSE

\* ------------------------------------------------------------ process_file

\* The scheduler calls process_file(filename).
Invoke ==
    /\ pc = "idle"
    /\ pc' = "exists"
    /\ jira' = "none"
    /\ total_successful' = 0
    /\ owed' = [p \in Paths |-> IF p \in files THEN NonBlank(content[p]) ELSE {}]
    /\ UNCHANGED << files, content, extLock, tickets, cur, holding, tempExists, temp,
                    idx, file_empty, successful_count, sync_files, ticket_key,
                    failed, keysReturned, called, rewrote, drainInput, passState,
                    contended >>
    /\ UNCHANGED shellVars
    /\ UNCHANGED faultVars

\* `if not os.path.exists(filename): return`
CheckExists ==
    /\ pc = "exists"
    /\ pc' = IF Primary \in files THEN "connect" ELSE "idle"
    /\ UNCHANGED << files, content, extLock, tickets, jira, cur, holding, tempExists,
                    temp, idx, file_empty, successful_count, total_successful,
                    sync_files, ticket_key >>
    /\ UNCHANGED histVars
    /\ UNCHANGED shellVars
    /\ UNCHANGED faultVars

\* connect_to_jira() and `if not jira: return`; on success the drain of the
\* main file starts.
Connect ==
    /\ pc = "connect"
    /\ \E session \in {"session", "failed"} :
         /\ jira' = session
         /\ pc' = AfterConnect(session)
    /\ cur' = Primary
    /\ UNCHANGED << files, content, extLock, tickets, holding, tempExists, temp, idx,
                    file_empty, successful_count, total_successful, sync_files,
                    ticket_key >>
    /\ UNCHANGED histVars
    /\ UNCHANGED shellVars
    /\ UNCHANGED faultVars

\* --------------------------------------------------- process_single_file

\* successful_count = 0; tempfile.mkstemp(dir=...); os.close(temp_fd)
Mkstemp ==
    /\ pc = "mkstemp"
    /\ pc' = "open"
    /\ successful_count' = 0
    /\ tempExists' = TRUE
    /\ temp' = << >>
    /\ keysReturned' = 0
    /\ called' = FALSE
    /\ rewrote' = FALSE
    /\ drainInput' = content[cur]
    /\ passState' = "none"
    /\ contended' = FALSE
    /\ failed' = << >>
    /\ UNCHANGED << files, content, extLock, tickets, jira, cur, holding, idx,
                    file_empty, total_successful, sync_files, ticket_key, owed >>
    /\ converted' = {}
    /\ UNCHANGED << faults, stale, unlinkRaised, extSeen >>
    /\ UNCHANGED shellVars

\* open(filename, 'r+') raises FileNotFoundError, an OSError.
OpenFails ==
    /\ pc = "open"
    /\ cur \notin files
    /\ pc' = OnIOError
    /\ holding' = FALSE
    /\ UNCHANGED << files, content, extLock, tickets, jira, cur, tempExists, temp, idx,
                    file_empty, successful_count, total_successful, sync_files,
                    ticket_key >>
    /\ UNCHANGED histVars
    /\ UNCHANGED shellVars
    /\ UNCHANGED faultVars

\* msvcrt.locking(..., LK_NBLCK, 1) raises OSError: another process holds the lock.
LockFails ==
    /\ pc = "open"
    /\ cur \in files
    /\ cur \in extLock
    /\ pc' = OnIOError
    /\ holding' = FALSE
    /\ contended' = TRUE
    /\ UNCHANGED << files, content, extLock, tickets, jira, cur, tempExists, temp, idx,
                    file_empty, successful_count, total_successful, sync_files,
                    ticket_key, failed, keysReturned, called, rewrote, drainInput,
                    passState, owed >>
    /\ UNCHANGED shellVars
    /\ UNCHANGED faultVars

\* The lock is acquired; open(temp_path, 'w') empties the scratch file;
\* file_empty = True; source_file.seek(0).
OpenLock ==
    /\ pc = "open"
    /\ cur \in files
    /\ cur \notin extLock
    /\ pc' = "read"
    /\ holding' = TRUE
    /\ temp' = << >>
    /\ file_empty' = TRUE
    /\ idx' = 1
    /\ failed' = << >>
    /\ passState' = "running"
    /\ UNCHANGED << files, content, extLock, tickets, jira, cur, tempExists,
                    successful_count, total_successful, sync_files, ticket_key,
                    keysReturned, called, rewrote, drainInput, contended, owed >>
    /\ UNCHANGED shellVars
    /\ UNCHANGED faultVars

\* time.sleep(1); continue
Sleep ==
    /\ pc = "sleep"
    /\ pc' = "open"
    /\ UNCHANGED << files, content, extLock, tickets, jira, cur, holding, tempExists,
                    temp, idx, file_empty, successful_count, total_successful,
                    sync_files, ticket_key >>
    /\ UNCHANGED histVars
    /\ UNCHANGED shellVars
    /\ UNCHANGED faultVars

\* One iteration of `for line in source_file`.
ReadLine ==
    /\ pc = "read"
    /\ idx <= Len(content[cur])
    /\ \E r \in process_line(tickets, content[cur][idx]) :
         /\ tickets' = r.tickets
         /\ ticket_key' = r.key
         /\ successful_count' = IF r.success THEN successful_count + 1 ELSE successful_count
         /\ temp' = IF r.success THEN temp ELSE temp_file_write(temp, r.line)
         /\ failed' = IF r.called /\ r.key = None
                       THEN Append(failed, content[cur][idx]) ELSE failed
         /\ keysReturned' = IF r.key # None THEN keysReturned + 1 ELSE keysReturned
         /\ called' = (called \/ r.called)
         /\ converted' = IF r.key # None THEN converted \cup {idx} ELSE converted
    /\ file_empty' = FALSE
    /\ idx' = idx + 1
    /\ UNCHANGED << files, content, extLock, pc, jira, cur, holding, tempExists,
                    total_successful, sync_files, rewrote, drainInput, passState,
                    contended, owed >>
    /\ UNCHANGED << faults, stale, unlinkRaised, extSeen >>
    /\ UNCHANGED shellVars

\* An exception that is no OSError is raised inside the loop (a line that
\* cannot be decoded, a print that cannot encode its text): `except Exception`
\* breaks; leaving the with blocks closes the file, which gives up the lock.
ReadRaises ==
    /\ pc = "read"
    /\ idx <= Len(content[cur])
    /\ pc' = "cleanup"
    /\ holding' = FALSE
    /\ passState' = "aborted"
    /\ UNCHANGED << files, content, extLock, tickets, jira, cur, tempExists, temp, idx,
                    file_empty, successful_count, total_successful, sync_files,
                    ticket_key, failed, keysReturned, called, rewrote, drainInput,
                    contended, owed >>
    /\ UNCHANGED shellVars
    /\ UNCHANGED faultVars

\* The for loop is exhausted: `if file_empty: break`, else go on to the rewrite.
EndOfFile ==
    /\ pc = "read"
    /\ idx > Len(content[cur])
    /\ IF FileEmptyBreak(file_empty)
       THEN /\ pc' = "cleanup"
            /\ holding' = FALSE
            /\ passState' = "empty"
       ELSE /\ pc' = "truncate"
            /\ UNCHANGED << holding, passState >>
    /\ UNCHANGED << files, content, extLock, tickets, jira, cur, tempExists, temp, idx,
                    file_empty, successful_count, total_successful, sync_files,
                    ticket_key, failed, keysReturned, called, rewrote, drainInput,
                    contended, owed >>
    /\ UNCHANGED shellVars
    /\ UNCHANGED faultVars

\* An OSError is raised inside the for loop (the read of the next line, the
\* write to the scratch file): leaving the with blocks closes the file, which
\* gives up the lock, and `except IOError` sleeps and continues.
ReadIOError ==
    /\ pc = "read"
    /\ idx <= Len(content[cur])
    /\ faults > 0
    /\ faults' = faults - 1
    /\ pc' = OnIOError
    /\ holding' = FALSE
    /\ passState' = "interrupted"
    /\ UNCHANGED << files, content, extLock, tickets, jira, cur, tempExists, temp, idx,
                    file_empty, successful_count, total_successful, sync_files,
                    ticket_key, failed, keysReturned, called, rewrote, drainInput,
                    contended, owed >>
    /\ UNCHANGED << stale, unlinkRaised, converted, extSeen >>
    /\ UNCHANGED shellVars

\* source_file.seek(0); source_file.truncate()
Truncate ==
    /\ pc = "truncate"
    /\ pc' = "copy"
    /\ content' = [content EXCEPT ![cur] = << >>]
    /\ rewrote' = TRUE
    /\ UNCHANGED << files, extLock, tickets, jira, cur, holding, tempExists, temp, idx,
                    file_empty, successful_count, total_successful, sync_files,
                    ticket_key, failed, keysReturned, called, drainInput, passState,
                    contended, owed >>
    /\ converted' = {}
    /\ UNCHANGED << faults, stale, unlinkRaised, extSeen >>
    /\ UNCHANGED shellVars

\* temp_file.flush(); shutil.copyfileobj(read_temp, source_file);
\* `if os.path.getsize(temp_path) == 0: break`
CopyBack ==
    /\ pc = "copy"
    /\ content' = [content EXCEPT ![cur] = temp]
    /\ passState' = "done"
    /\ IF temp = << >>
       THEN /\ pc' = "cleanup"
            /\ holding' = FALSE
       ELSE /\ pc' = "unlock"
            /\ UNCHANGED holding
    /\ UNCHANGED << files, extLock, tickets, jira, cur, tempExists, temp, idx,
                    file_empty, successful_count, total_successful, sync_files,
                    ticket_key, failed, keysReturned, called, rewrote, drainInput,
                    contended, owed >>
    /\ UNCHANGED shellVars
    /\ UNCHANGED faultVars

\* An OSError is raised after the truncate (temp_file.flush, the open of the
\* scratch file for reading, shutil.copyfileobj): the target file holds the
\* lines copied so far; the file is closed, which gives up the lock, and
\* `except IOError` sleeps and continues.
CopyRaises ==
    /\ pc = "copy"
    /\ faults > 0
    /\ faults' = faults - 1
    /\ \E n \in 0..Len(temp) : content' = [content EXCEPT ![cur] = SubSeq(temp, 1, n)]
    /\ pc' = OnIOError
    /\ holding' = FALSE
    /\ passState' = "interrupted"
    /\ UNCHANGED << files, extLock, tickets, jira, cur, tempExists, temp, idx,
                    file_empty, successful_count, total_successful, sync_files,
                    ticket_key, failed, keysReturned, called, rewrote, drainInput,
                    contended, owed >>
    /\ UNCHANGED << stale, unlinkRaised, converted, extSeen >>
    /\ UNCHANGED shellVars

\* source_file.seek(0); msvcrt.locking(..., LK_UNLCK, 1); the file is closed and
\* `while True` starts the next pass.
Unlock ==
    /\ pc = "unlock"
    /\ pc' = "open"
    /\ holding' = FALSE
    /\ UNCHANGED << files, content, extLock, tickets, jira, cur, tempExists, temp, idx,
                    file_empty, successful_count, total_successful, sync_files,
                    ticket_key >>
    /\ UNCHANGED histVars
    /\ UNCHANGED shellVars
    /\ UNCHANGED faultVars

\* finally: os.unlink(temp_path), whose exception is caught and printed;
\* return successful_count; the caller adds it to total_successful.  After the
\* return temp_path is out of scope: a scratch file that could not be
\* unlinked stays behind as a stale file.
Cleanup ==
    /\ pc = "cleanup"
    /\ \E raised \in IF faults > 0 THEN BOOLEAN ELSE {FALSE} :
         /\ stale' = (stale \/ ScratchRemains(tempExists, raised))
         /\ unlinkRaised' = (unlinkRaised \/ raised)
         /\ faults' = IF raised THEN faults - 1 ELSE faults
    /\ converted' = {}
    /\ extSeen' = << >>
    /\ tempExists' = FALSE
    /\ temp' = << >>
    /\ total_successful' = total_successful + successful_count
    /\ pc' = IF cur = Primary THEN "glob" ELSE "remove"
    /\ idx' = 1
    /\ file_empty' = TRUE
    /\ ticket_key' = None
    /\ UNCHANGED << files, content, extLock, tickets, jira, cur, holding,
                    successful_count, sync_files >>
    /\ UNCHANGED histVars
    /\ UNCHANGED shellVars

\* sync_files = get_sync_conflict_files(filename)
Glob ==
    /\ pc = "glob"
    /\ sync_files' = get_sync_conflict_files(files)
    /\ pc' = "loop"
    /\ successful_count' = 0
    /\ DrainHistoryReset
    /\ UNCHANGED << files, content, extLock, tickets, jira, cur, holding, tempExists,
                    temp, idx, file_empty, total_successful, ticket_key, owed >>
    /\ UNCHANGED shellVars
    /\ UNCHANGED faultVars

\* `for sync_file in sync_files`: the next conflict file is drained.
LoopNext ==
    /\ pc = "loop"
    /\ \E f \in sync_files :
         /\ cur' = f
         /\ sync_files' = sync_files \ {f}
    /\ pc' = "mkstemp"
    /\ UNCHANGED << files, content, extLock, tickets, jira, holding, tempExists, temp,
                    idx, file_empty, successful_count, total_successful, ticket_key >>
    /\ UNCHANGED histVars
    /\ UNCHANGED shellVars
    /\ UNCHANGED faultVars

\* The loop is over: print the total and return.
LoopDone ==
    /\ pc = "loop"
    /\ sync_files = {}
    /\ pc' = "idle"
    /\ UNCHANGED << files, content, extLock, tickets, jira, cur, holding, tempExists,
                    temp, idx, file_empty, successful_count, total_successful,
                    sync_files, ticket_key >>
    /\ UNCHANGED histVars
    /\ UNCHANGED shellVars
    /\ UNCHANGED faultVars

\* os.remove(sync_file); a failure (the file is gone already) is only printed.
RemoveSync ==
    /\ pc = "remove"
    /\ files' = files \ {cur}
    /\ content' = [content EXCEPT ![cur] = << >>]
    /\ extLock' = extLock \ {cur}
    /\ pc' = "loop"
    /\ cur' = Primary
    /\ successful_count' = 0
    /\ DrainHistoryReset
    /\ UNCHANGED << tickets, jira, holding, tempExists, temp, idx, file_empty,
                    total_successful, sync_files, ticket_key, owed >>
    /\ UNCHANGED shellVars
    /\ UNCHANGED faultVars

\* ------------------------------------------------------------ environment

\* Another process takes the lock of the file a drain is about to open.  (A
\* lock is observed only by the drain's attempt to take it, so locks taken at
\* other moments add no behaviour.)
ExtLock ==
    \E p \in files \ extLock :
      /\ p = cur
      /\ pc \in {"mkstemp", "open", "sleep"}
      /\ extLock' = extLock \cup {p}
      /\ UNCHANGED << files, content, tickets >>
      /\ UNCHANGED procVars
      /\ UNCHANGED histVars
      /\ UNCHANGED shellVars
      /\ UNCHANGED faultVars

ExtUnlock ==
    \E p \in extLock :
      /\ extLock' = extLock \ {p}
      /\ UNCHANGED << files, content, tickets >>
      /\ UNCHANGED procVars
      /\ UNCHANGED histVars
      /\ UNCHANGED shellVars
      /\ UNCHANGED faultVars

\* The sync tool removes a conflict file that nobody has open, after its
\* discovery and before or between the passes of its drain.
ExtRemove ==
    \E p \in (files \cap ConflictPaths) \ extLock :
      /\ pc \in {"loop", "mkstemp", "open", "sleep"}
      /\ p \in sync_files \cup {cur}
      /\ files' = files \ {p}
      /\ content' = [content EXCEPT ![p] = << >>]
      /\ owed' = [owed EXCEPT ![p] = {}]
      /\ UNCHANGED << extLock, tickets >>
      /\ UNCHANGED procVars
      /\ UNCHANGED << failed, keysReturned, called, rewrote, drainInput, passState,
                      contended >>
      /\ UNCHANGED shellVars
      /\ UNCHANGED faultVars

\* Another process running the same program holds the lock of the file and
\* reads its lines, to submit them (the for loop of its own drain).
ExtRead ==
    \E p \in extLock :
      /\ p = cur
      /\ extSeen # content[p]
      /\ extSeen' = content[p]
      /\ UNCHANGED << faults, stale, unlinkRaised, converted >>
      /\ UNCHANGED coreVars
      /\ UNCHANGED shellVars

\* A tracker user moves a ticket to the Done category.  (The status of a
\* ticket is observed only by the search of create_ticket, so it is enough to
\* let tickets close while lines are being read.)
CloseTicket ==
    \E k \in 1..Len(tickets) :
      /\ pc = "read"
      /\ ~tickets[k].done
      /\ tickets' = [tickets EXCEPT ![k].done = TRUE]
      /\ UNCHANGED << files, content, extLock >>
      /\ UNCHANGED procVars
      /\ UNCHANGED histVars
      /\ UNCHANGED shellVars
      /\ UNCHANGED faultVars

ProgramStep ==
    \/ CheckExists \/ Connect \/ Mkstemp \/ OpenFails \/ LockFails \/ OpenLock
    \/ Sleep \/ ReadLine \/ ReadRaises \/ EndOfFile \/ Truncate \/ CopyBack
    \/ Unlock \/ Cleanup \/ Glob \/ LoopNext \/ LoopDone \/ RemoveSync

Next ==
    \/ Invoke
    \/ ProgramStep
    \/ ExtLock \/ ExtUnlock \/ ExtRemove \/ CloseTicket

Spec == Init /\ [][Next]_vars

\* The process keeps running: the operating system schedules it and sleep(1)
\* returns.
FairSpec == Spec /\ WF_vars(ProgramStep)

\* One call process_single_file(filename, jira) on the main file, from its
\* first statement to its return, with the other processes of the machine and
\* the tracker's users acting meanwhile.
DrainInit ==
    /\ InitAt("mkstemp", "session")
    /\ files = {Primary}

DrainStep ==
    \/ Mkstemp \/ LockFails \/ OpenLock \/ Sleep \/ ReadLine \/ ReadRaises
    \/ EndOfFile \/ Truncate \/ CopyBack \/ Unlock \/ Cleanup

DrainNext == DrainStep \/ ExtLock \/ ExtUnlock \/ CloseTicket

\* The process keeps running while it drains: the operating system schedules
\* it and sleep(1) returns.
DrainSpec == DrainInit /\ [][DrainNext]_vars /\ WF_vars(DrainStep)

\* One call process_single_file(filename, jira) on the main file on a machine
\* that raises up to MaxFaults OSErrors while the file is read and rewritten,
\* with another process running the same program on the same file.
FaultInit ==
    /\ CoreInit("mkstemp", "session")
    /\ files = {Primary}
    /\ faults = MaxFaults
    /\ NothingLeft
    /\ ShellIdle

FaultStep == DrainStep \/ ReadIOError \/ CopyRaises

FaultNext == FaultStep \/ ExtLock \/ ExtUnlock \/ ExtRead \/ CloseTicket

FaultSpec == FaultInit /\ [][FaultNext]_vars

\* ------------------------------------------ generate_content_hash alone

\* A caller has a text and has not fingerprinted it yet.
HashInit ==
    /\ CoreInit("idle", "none")
    /\ files = {}
    /\ faults = 0
    /\ NothingLeft
    /\ hashIn \in HashInputs
    /\ hashOut = << >>
    /\ ServiceIdle

\* hashOut = generate_content_hash(hashIn)
Fingerprint ==
    /\ hashOut' = generate_content_hash(hashIn)
    /\ UNCHANGED << hashIn, svcVars, coreVars, faultVars >>

\* The caller puts whitespace in front of the text.
AddLeading ==
    /\ Len(hashIn) < MaxTextLen
    /\ hashIn' = <<" ">> \o hashIn
    /\ UNCHANGED << hashOut, svcVars, coreVars, faultVars >>

\* The caller puts whitespace behind the text.
AddTrailing ==
    /\ Len(hashIn) < MaxTextLen
    /\ hashIn' = Append(hashIn, " ")
    /\ UNCHANGED << hashOut, svcVars, coreVars, faultVars >>

\* The caller takes a whitespace character off the front of the text.
DropLeading ==
    /\ hashIn # << >>
    /\ IsSpace(Head(hashIn))
    /\ hashIn' = Tail(hashIn)
    /\ UNCHANGED << hashOut, svcVars, coreVars, faultVars >>

\* The caller takes a whitespace character off the end of the text.
DropTrailing ==
    /\ hashIn # << >>
    /\ IsSpace(hashIn[Len(hashIn)])
    /\ hashIn' = SubSeq(hashIn, 1, Len(hashIn) - 1)
    /\ UNCHANGED << hashOut, svcVars, coreVars, faultVars >>

HashNext == Fingerprint \/ AddLeading \/ AddTrailing \/ DropLeading \/ DropTrailing

HashSpec == HashInit /\ [][HashNext]_vars

\* ------------------------------------------------- the tray service shell

\* Where a thread goes when process_tickets returns: the scheduler sleeps and
\* loops, a thread started by process_now ends.
AfterReturn(t) == IF t = Scheduler THEN "sleep" ELSE "done"

\* run_scheduler: `if not self.processing: self.process_tickets()`, else
\* time.sleep(self.interval).
SchedulerCheck ==
    /\ thread[Scheduler] = "idle"
    /\ thread' = [thread EXCEPT ![Scheduler] = IF processing THEN "sleep" ELSE "entry"]
    /\ UNCHANGED << processing, hashVars, coreVars, faultVars >>

\* time.sleep(self.interval) returns and `while self.running` loops.
SchedulerSleep ==
    /\ thread[Scheduler] = "sleep"
    /\ thread' = [thread EXCEPT ![Scheduler] = "idle"]
    /\ UNCHANGED << processing, hashVars, coreVars, faultVars >>

\* process_now, run by the menu: `if not self.processing:` start a thread
\* whose target is process_tickets; otherwise the click does nothing.
process_now(t) ==
    /\ t \in ManualThreads
    /\ thread[t] = "idle"
    /\ thread' = [thread EXCEPT ![t] = IF processing THEN "done" ELSE "entry"]
    /\ UNCHANGED << processing, hashVars, coreVars, faultVars >>

\* process_tickets: `if self.processing: return`
ProcessTicketsCheck(t) ==
    /\ thread[t] = "entry"
    /\ thread' = [thread EXCEPT ![t] = IF processing THEN AfterReturn(t) ELSE "set"]
    /\ UNCHANGED << processing, hashVars, coreVars, faultVars >>

\* process_tickets: `self.processing = True`; the icon is set and
\* process_file(TICKET_FILE) is entered.
ProcessTicketsSet(t) ==
    /\ thread[t] = "set"
    /\ processing' = TRUE
    /\ thread' = [thread EXCEPT ![t] = "process_file"]
    /\ UNCHANGED << hashVars, coreVars, faultVars >>

\* process_file(TICKET_FILE) returns or raises; either way the finally clause
\* is next.
ProcessFileEnds(t) ==
    /\ thread[t] = "process_file"
    /\ thread' = [thread EXCEPT ![t] = "finally"]
    /\ UNCHANGED << processing, hashVars, coreVars, faultVars >>

\* finally: `self.processing = False`; process_tickets returns.
ProcessTicketsFinally(t) ==
    /\ thread[t] = "finally"
    /\ processing' = FALSE
    /\ thread' = [thread EXCEPT ![t] = AfterReturn(t)]
    /\ UNCHANGED << hashVars, coreVars, faultVars >>

\* JiraTicketService.start(): the scheduler thread runs and the menu is shown;
\* the core is not looked at.
ServiceInit ==
    /\ InitAt("idle", "none")
    /\ files = {}

ServiceNext ==
    \/ SchedulerCheck
    \/ SchedulerSleep
    \/ \E t \in ManualThreads : process_now(t)
    \/ \E t \in Threads : ProcessTicketsCheck(t)
    \/ \E t \in Threads : ProcessTicketsSet(t)
    \/ \E t \in Threads : ProcessFileEnds(t)
    \/ \E t \in Threads : ProcessTicketsFinally(t)

ServiceSpec == ServiceInit /\ [][ServiceNext]_vars

\* ------------------------------------------------------------- properties

\* The open tickets whose description carries content_hash.
OpenWith(content_hash) ==
    { k \in 1..Len(tickets) : tickets[k].hash = content_hash /\ ~tickets[k].done }

\* The program takes a step of the for loop on a line that is not blank.
SubmitsLine ==
    /\ pc = "read"
    /\ idx <= Len(content[cur])
    /\ idx' = idx + 1
    /\ Strip(content[cur][idx]) # << >>

StrippedLines(lines) == [i \in 1..Len(lines) |-> Strip(lines[i])]

\* C1: when create_ticket is called with a fingerprint that an open ticket
\* carries, it creates no ticket, and the key it returns is the key of an open
\* ticket carrying that fingerprint (a gateway error returns no key and creates
\* nothing either), so resubmitting the text leaves the tickets as they are.
C1_IdempotentCreate ==
    [][ (SubmitsLine /\ OpenWith(generate_content_hash(content[cur][idx])) # {})
        => /\ tickets' = tickets
           /\ ticket_key' \in
                OpenWith(generate_content_hash(content[cur][idx])) \cup {None} ]_vars

\* C1 witness: two submissions of this drain returned a key and the tracker
\* holds one ticket: the second one returned the key of the first.
C1_Witness ==
    /\ pc = "read"
    /\ keysReturned = 2
    /\ Len(tickets) = 1
    /\ ticket_key = 1

C3_NoSilentDiscard ==
    pc = "idle" =>
        \A p \in Paths : \A l \in owed[p] :
            \/ \E k \in 1..Len(tickets) : tickets[k].hash = generate_content_hash(l)
            \/ \E q \in files : \E i \in 1..Len(content[q]) : Strip(content[q][i]) = l

\* C4: a pass that wrote a failed line back ends the call: the call does not
\* go back to lock the file and submit the line again.
C4_DefersToNextInvocation ==
    passState = "done" => pc \notin {"open", "sleep"}

\* C5: once the drain pass over a conflict file has written unconverted lines
\* back, the invocation goes on to delete the conflict file.
C5_ConflictFileDeleted ==
    (cur \in ConflictPaths /\ passState = "done" /\ failed # << >>)
        => pc \in {"unlock", "cleanup", "remove"}

\* C6: a step of process_file that leaves it without a session stays outside
\* the drain and changes no file and no ticket, and no scratch file exists
\* after it; a failed connect_to_jira ends the invocation.
C6_ConnectFailureNoMutation ==
    [][ (pc' # pc /\ jira' # "session")
        => /\ pc' \in {"idle", "exists", "connect"}
           /\ (pc = "connect" => pc' = "idle")
           /\ UNCHANGED << files, content, tickets >>
           /\ ~tempExists' ]_vars

\* C6 witness: the invocation has ended on a failed connection while the main
\* file and a conflict file hold lines.
C6_Witness ==
    /\ pc = "idle"
    /\ jira = "failed"
    /\ content[Primary] # << >>
    /\ \E p \in ConflictPaths : p \in files /\ content[p] # << >>

\* The drain waits for a lock that nobody holds.
WaitsForFreeLock == pc \in {"open", "sleep"} /\ cur \in files /\ cur \notin extLock

\* C7: an attempt to lock a file that another process holds locked neither
\* fails nor returns: it sleeps and tries again, leaving the files, the count
\* and the scratch file as they are; the drain never waits forever for a lock
\* that stays released, and a pass that holds the lock comes to its end.
C7_LockContention ==
    /\ [][ (pc = "open" /\ cur \in files /\ cur \in extLock /\ pc' # pc)
           => /\ pc' = "sleep"
              /\ UNCHANGED << files, content, successful_count, tempExists >> ]_vars
    /\ []<>(~WaitsForFreeLock)
    /\ (holding ~> ~holding)

\* C7 witness: a drain that found the lock held has completed a pass.
C7_Witness ==
    /\ contended
    /\ passState = "done"
    /\ drainInput # << >>

\* C8: the count of a drain is the number of create_ticket calls that
\* returned a key; blank lines are not counted.
C8_CountsKeysOnly ==
    successful_count = keysReturned

\* The program is inside process_single_file.
InDrain ==
    pc \in {"open", "sleep", "read", "truncate", "copy", "unlock", "cleanup"}

\* C9: the drain of a file without lines counts 0, calls no gateway and never
\* truncates or rewrites the file; when it stops it holds no lock.
C9_EmptyFile ==
    (InDrain /\ drainInput = << >>)
        => /\ successful_count = 0
           /\ ~called
           /\ ~rewrote
           /\ pc \notin {"truncate", "copy", "unlock"}
           /\ (pc = "cleanup" => ~holding)

\* C9 witness: the drain of an existing zero-byte file has taken the lock,
\* found no line and stopped.
C9_Witness ==
    /\ pc = "cleanup"
    /\ cur \in files
    /\ drainInput = << >>
    /\ passState = "empty"

\* C10: the drain of a path that does not exist returns at once with count 0:
\* it neither sleeps nor tries again.
C10_MissingFileReturns ==
    [][ (pc = "open" /\ cur \notin files /\ pc' # pc)
        => (pc' = "cleanup" /\ successful_count' = 0) ]_vars

\* C12: the fingerprint of a text is the fingerprint of every text with the
\* same trimmed text (whitespace added to or taken from its ends; the empty
\* text included), and it is always 12 hexadecimal digits.
C12_FingerprintOfTrimmedText ==
    hashOut # << >> =>
        /\ hashOut = generate_content_hash(hashIn)
        /\ \A u \in HashInputs :
              Strip(u) = Strip(hashIn) => generate_content_hash(u) = hashOut
        /\ Len(hashOut) = HashPrefixLen
        /\ \A i \in 1..Len(hashOut) : hashOut[i] \in 0..15

\* C12 witness: the text "a" was fingerprinted, or a text that trims to it,
\* and now has whitespace on both ends.
C12_Witness ==
    /\ hashIn = <<" ", "a", " ">>
    /\ hashOut = generate_content_hash(<<"a">>)

\* The threads that are inside the process_file call of process_tickets.
InProcessFile == { t \in Threads : thread[t] = "process_file" }

\* C11: under any interleaving of the scheduler thread and the threads
\* started by process_now, at most one thread is inside the process_file call
\* of process_tickets.
C11_AtMostOneInProcessFile ==
    Cardinality(InProcessFile) <= 1

\* The line has a ticket carrying its fingerprint or is in the file.
Accounted(line, lines) ==
    \/ \E k \in 1..Len(tickets) : tickets[k].hash = generate_content_hash(line)
    \/ \E j \in 1..Len(lines) : Strip(lines[j]) = Strip(line)

\* C13: whatever I/O error interrupts a drain, once the file is closed and
\* the lock given up the target file is not left truncated: every line that
\* was in it when the drain began and is not blank has been converted to a
\* ticket or is in the file.
C13_NeverLeftTruncated ==
    ~holding =>
        \A i \in 1..Len(drainInput) :
            Strip(drainInput[i]) = << >> \/ Accounted(drainInput[i], content[cur])

\* C14: within one call of process_single_file a line that has been
\* converted to a ticket is not submitted to the gateway again (and so not
\* counted again), also when a pass is interrupted and the loop runs another.
C14_NoDoubleProcessing ==
    [][ SubmitsLine => idx \notin converted ]_vars

\* C15: the drain reads, truncates and rewrites the file only while it holds
\* the lock and no other process does; it holds no lock once it has left the
\* locked section; and when another drain reads the file under its own lock,
\* the file holds no line that this drain has converted to a ticket.
C15_CrossProcessExclusion ==
    /\ [](pc \in {"read", "truncate", "copy", "unlock"} => holding /\ cur \notin extLock)
    /\ [](pc \in {"open", "sleep", "cleanup", "glob"} => ~holding)
    /\ [][ extSeen' # extSeen => converted = {} ]_vars

\* The program is inside process_single_file and past mkstemp.
HasScratch ==
    pc \in {"open", "sleep", "read", "truncate", "copy", "unlock", "cleanup"}

\* C16 as claimed: whenever process_single_file has ended, no scratch file
\* that it created exists.
C16_NoScratchLeft ==
    ~HasScratch => (~tempExists /\ ~stale)

\* C16 amended: outside process_single_file the scratch file of the call
\* does not exist, however the call ended, unless os.unlink itself has
\* raised: only then does a scratch file stay behind, and the call has still
\* returned to its caller instead of raising.
C16_ScratchRemoved ==
    /\ ~HasScratch => ~tempExists
    /\ stale => unlinkRaised
    /\ unlinkRaised => pc \in {"mkstemp", "glob"} \/ HasScratch

\* C16 witness: a call whose drain was aborted by an exception has returned
\* and has left no scratch file.
C16_Witness ==
    /\ pc = "glob"
    /\ passState = "aborted"
    /\ ~tempExists
    /\ ~stale

\* C17: when no open ticket carries the fingerprint of the submitted line
\* (every ticket carrying it is closed, or there is none), create_ticket
\* creates a new open ticket with that fingerprint and returns its key, unless
\* the gateway fails, which creates nothing and returns no key; and no step
\* of the program changes or removes a ticket that exists.
C17_ClosedDoNotDeduplicate ==
    [][ /\ (SubmitsLine /\ OpenWith(generate_content_hash(content[cur][idx])) = {})
            => \/ /\ ticket_key' = None
                  /\ tickets' = tickets
               \/ /\ ticket_key' = Len(tickets) + 1
                  /\ tickets' = Append(tickets,
                         [hash |-> generate_content_hash(content[cur][idx]),
                          done |-> FALSE])
        /\ (procVars' # procVars)
            => /\ Len(tickets') >= Len(tickets)
               /\ \A k \in 1..Len(tickets) : tickets'[k] = tickets[k] ]_vars

\* C17 witness: a line was submitted whose fingerprint only a closed ticket
\* carried, and a second ticket with that fingerprint has been created; the
\* closed one is as it was.
C17_Witness ==
    /\ pc = "read"
    /\ Len(tickets) = 2
    /\ tickets[1].done
    /\ ~tickets[2].done
    /\ tickets[2].hash = tickets[1].hash
    /\ ticket_key = 2

\* C18: when the main path does not exist and a conflict file does,
\* process_file does not return at its existence check: it goes on to connect
\* (and from there to the drains and to the discovery of the conflict files),
\* leaving the files as they are.
C18_AbsentPrimaryStillHandlesConflicts ==
    [][ (pc = "exists" /\ Primary \notin files /\ files \cap ConflictPaths # {}
         /\ pc' # pc)
        => (pc' = "connect" /\ files' = files) ]_vars

\* process_single_file has left its loop by one of its two break statements
\* (`if file_empty` or the empty scratch file), not by an exception.
NormalReturn == pc = "cleanup" /\ passState \in {"done", "empty"}

\* C19: process_single_file leaves its loop without an exception only when
\* the target file holds no lines, and then every line that the call has read
\* was blank or has been converted to a ticket.
C19_NormalReturnMeansDrained ==
    NormalReturn =>
        /\ content[cur] = << >>
        /\ \A i \in 1..Len(drainInput) :
              \/ Strip(drainInput[i]) = << >>
              \/ \E k \in 1..Len(tickets) :
                    tickets[k].hash = generate_content_hash(drainInput[i])

\* s can be got from t by leaving elements out.
RECURSIVE IsSubseq(_, _)
IsSubseq(s, t) ==
    IF s = << >> THEN TRUE
    ELSE IF t = << >> THEN FALSE
    ELSE IF Head(s) = Head(t) THEN IsSubseq(Tail(s), Tail(t))
    ELSE IsSubseq(s, Tail(t))

\* C20: during a pass the scratch file holds one line for every line whose
\* create failed, in the order in which they were read from the target file
\* (two identical lines that both fail are both there), and the rewritten
\* target file holds exactly the lines of the scratch file.
C20_RetainedInOrder ==
    /\ pc \in {"read", "truncate"}
        => /\ IsSubseq(failed, SubSeq(content[cur], 1, idx - 1))
           /\ Len(temp) = Len(failed)
           /\ \A i \in 1..Len(temp) : temp[i] = Strip(failed[i])
    /\ (passState = "done" /\ cur \in files) => content[cur] = temp

\* C20 witness: a pass has rewritten the file with two identical lines that
\* both failed.
C20_Witness ==
    /\ passState = "done"
    /\ pc = "unlock"
    /\ failed = << <<"b">>, <<"b">> >>
    /\ content[cur] = << <<"b">>, <<"b">> >>

====
